---- MODULE Spec2Model ----
(***************************************************************************)
(* A state-machine model of the coordination code of the selenium client:   *)
(*   - the BiDi/CDP session multiplexer (CDPSessionImpl),                   *)
(*   - the session handles (remote.WebDriver, remoteWD) and element        *)
(*     handles (webElement) talking to a remote end,                       *)
(*   - the action queues (ActionBuilder, remoteWD.storedActions),          *)
(*   - the polling loop remoteWD.WaitWithTimeoutAndInterval,               *)
(*   - the driver-service supervisors (common.Service, selenium.Service),  *)
(*   - command dispatch (RemoteConnection.Execute, executeCommand),        *)
(*   - the BiDi event handlers (bidi.Session),                             *)
(*   - the keyboard actions (actions.KeyInput, remoteWD.keyAction).        *)
(* Each subsystem has its own specification (SpecBidi, SpecSession,         *)
(* SpecActions, SpecWait, SpecService, SpecConn, SpecEvents, SpecKeys); the *)
(* variables of the other subsystems stay unchanged.                        *)
(***************************************************************************)
EXTENDS Integers, Sequences, FiniteSets, TLC

VARIABLES
    \* ---- CDPSessionImpl (src/internal/mockweb/server.go) ----
    closed,        \* s.closed
    nextID,        \* s.nextID (atomic.Int64)
    inflight,      \* s.inflight: [isNil, m] ; m maps a request id to a channel
    chans,         \* the reply channels made by Execute, indexed by the id of the call
    wsSent,        \* frames handed to ws.Send successfully
    wsCloseCount,  \* number of ws.Close() calls
    closeLog,      \* what each Close of the session returned, in call order
    pc,            \* position of each caller inside Execute
    callId,        \* local variable id of each caller's current Execute
    method,        \* argument method of each caller's current Execute
    result,        \* what each caller's last Execute returned
    panicked,      \* a goroutine panicked (the process is gone)
    replies,       \* response frames the remote end has written to the socket
    routed,        \* ids of the response frames the reader loop has routed, in order
    \* ---- session handles (src/remote/webdriver.go, src/remote.go, src/unnamed/part_003) ----
    handles,       \* the session handles a constructor has returned
    sessionID,     \* WebDriver.sessionID
    id,            \* remoteWD.id
    elements,      \* the webElement handles made by NewElement: [id, session]
    issued,        \* number of session ids the remote end has handed out
    destroyed,     \* session ids destroyed by a DELETE /session/{id} that was answered with success
    last,          \* the last call on a handle: what it was given, dispatched and returned
    \* ---- action queues (src/actions/action_builder.go, src/remote.go) ----
    devices,       \* ActionBuilder.devices: the action list of each input device
    storedActions, \* remoteWD.storedActions
    wirePayload,   \* the "actions" array of the last /actions request handed to the transport
    addLog,        \* the AddAction calls whose action is still queued, in call order
    storeLog,      \* the Store calls since the last PerformActions, in call order
    \* ---- remoteWD.WaitWithTimeoutAndInterval (src/remote.go) ----
    waitPc,        \* position inside the loop: idle, cond, sleep, done
    timeout,       \* argument timeout
    interval,      \* argument interval
    elapsed,       \* time.Since(startTime)
    condCalls,     \* number of times cond was invoked by this call
    sleeps,        \* number of time.Sleep calls made by this call
    condResult,    \* what the last invocation of cond returned
    waitResult,    \* what the call returned
    \* ---- driver services (src/unnamed/part_009, src/service.go) ----
    procs,         \* the driver processes spawned so far: state of each, by pid
    reaped,        \* pids whose exit cmd.Wait has collected
    svcProcess,    \* common.Service.process (0: nil, else the pid)
    svcPc,         \* position of common.Service.Start: idle, polling
    svcAttempt,    \* loop variable i of waitUntilConnectable
    startResult,   \* what the last common.Service.Start returned
    legacy,        \* the selenium.Service a constructor returned: [pid, shutdown]
    stopped,       \* per supervisor: a Stop has returned nil since its last start
    lastStop,      \* what the last Stop did and returned
    \* ---- command dispatch (src/unnamed/part_001, src/remote.go) ----
    commandMap,    \* RemoteConnection.commandMap
    connLast,      \* the last dispatch: what it was given, sent, received and returned
    \* ---- bidi.Session (src/bidi/session.go) ----
    handlers,      \* s.handlers: [isNil, m] ; m maps an event type to its handlers
    sessClosed,    \* s.closed of the Session
    arrived,       \* event types of the events read from the socket, in arrival order
    handled,       \* indices (in arrived) of the events HandleEvent was called for
    evPc,          \* the HandleEvent call in progress: [ev, snap, k]
    invoked,       \* the handler invocations so far, in order: [h, ev]
    \* ---- actions.KeyInput (src/unnamed/part_006), remoteWD.keyAction ----
    keyboard,      \* KeyInput.actions
    keySent,       \* the "actions" of the key source in the last body remoteWD sent
    keyLast        \* the last key call: its name, its argument, the queue before it

bidiVars == <<closed, nextID, inflight, chans, wsSent, wsCloseCount, pc, callId,
              method, result, panicked, replies, routed,
             closeLog>>

sessionVars == <<handles, sessionID, id, elements, issued, destroyed, last>>

actionVars == <<devices, storedActions, wirePayload, addLog, storeLog>>

waitVars == <<waitPc, timeout, interval, elapsed, condCalls, sleeps, condResult, waitResult>>

serviceVars == <<procs, reaped, svcProcess, svcPc, svcAttempt, startResult, legacy,
                 stopped, lastStop>>

connVars == <<commandMap, connLast>>

eventVars == <<handlers, sessClosed, arrived, handled, evPc, invoked>>

keyVars == <<keyboard, keySent, keyLast>>

vars == <<bidiVars, sessionVars, actionVars, waitVars, serviceVars, connVars, eventVars,
         keyVars>>

\* What the steps of one subsystem leave alone.
notBidiVars == <<sessionVars, actionVars, waitVars, serviceVars, connVars, eventVars,
    keyVars>>
notSessionVars == <<bidiVars, actionVars, waitVars, serviceVars, connVars, eventVars,
    keyVars>>
notActionVars == <<bidiVars, waitVars, serviceVars, connVars, eventVars,
    keyVars>>
notWaitVars == <<bidiVars, sessionVars, actionVars, serviceVars, connVars, eventVars,
    keyVars>>
notServiceVars == <<bidiVars, sessionVars, actionVars, waitVars, connVars, eventVars,
    keyVars>>
notConnVars == <<bidiVars, sessionVars, actionVars, waitVars, serviceVars, eventVars,
    keyVars>>
notEventVars == <<sessionVars, actionVars, waitVars, serviceVars, connVars, keyVars>>
notKeyVars == <<bidiVars, sessionVars, actionVars, waitVars, serviceVars, connVars, eventVars>>

(***************************************************************************)
(* BiDi / CDP session multiplexer                                           *)
(***************************************************************************)

\* Bound on the number of Execute calls that get an id.
MaxId == 2

Callers == {"c1", "c2"}
Methods == {"Page.enable", "Runtime.evaluate"}

Nil == [kind |-> "nil"]

\* Results of Execute: (payload, nil) or (nil, err).
Ok(p)         == [kind |-> "ok", payload |-> p]
Err(e)        == [kind |-> e, payload |-> Nil]
NoResult      == [kind |-> "none", payload |-> Nil]

\* make(map[int64]chan json.RawMessage) and the nil map Close leaves behind.
EmptyMap == [isNil |-> FALSE, m |-> <<>>]
NilMap   == [isNil |-> TRUE, m |-> <<>>]

\* make(chan json.RawMessage, 1)
NewChan == [buf |-> <<>>, closed |-> FALSE]

\* A wrong registration: the channel is stored under the current value of the
\* counter instead of the id this call was assigned.
RegisterAtCounter(infl, rid) ==
    [isNil |-> FALSE, m |-> (nextID :> rid) @@ infl.m]

\* s.inflight[id] = resultCh ; the channel of a call is named by the call's id.
Register(infl, rid) ==
    [isNil |-> FALSE, m |-> (rid :> rid) @@ infl.m]

\* A delete that leaves the entry in the map.
KeepRegistered(infl, rid) == infl

\* delete(s.inflight, id) ; a no-op on a nil map.
Deregister(infl, rid) ==
    [infl EXCEPT !.m = [k \in (DOMAIN infl.m) \ {rid} |-> infl.m[k]]]

\* A counter that hands out its first value again.
AddOnce(n) == IF n = 0 THEN 1 ELSE n

\* s.nextID.Add(1): the new value of the counter, in one atomic step.
Add(n) == n + 1

\* A fail-fast check that never fires.
NeverClosed == FALSE

\* if s.closed { ... } at the top of Execute.
IsClosed == closed

BidiInit ==
    /\ closed = FALSE
    /\ nextID = 0
    /\ inflight = EmptyMap
    /\ chans = <<>>
    /\ wsSent = {}
    /\ wsCloseCount = 0
    /\ pc = [c \in Callers |-> "idle"]
    /\ callId = [c \in Callers |-> 0]
    /\ method = [c \in Callers |-> "none"]
    /\ result = [c \in Callers |-> NoResult]
    /\ panicked = FALSE
    /\ replies = {}
    /\ routed = <<>>
    /\ closeLog = <<>>

\* Execute, from its entry to the marshalled command: the closed check, the id
\* from nextID.Add(1), json.Marshal(cmd) (which fails for unmarshalable params).
ExecuteBegin(c, m, marshalOk) ==
    /\ ~panicked
    /\ UNCHANGED notBidiVars
    /\ UNCHANGED closeLog
    /\ pc[c] \in {"idle", "done"}
    /\ method' = [method EXCEPT ![c] = m]
    /\ IF IsClosed
       THEN /\ result' = [result EXCEPT ![c] = Err("SessionClosed")]
            /\ pc' = [pc EXCEPT ![c] = "done"]
            /\ UNCHANGED <<nextID, callId>>
       ELSE /\ nextID < MaxId
            /\ nextID' = Add(nextID)
            /\ callId' = [callId EXCEPT ![c] = nextID']
            /\ IF marshalOk
               THEN /\ pc' = [pc EXCEPT ![c] = "register"]
                    /\ result' = [result EXCEPT ![c] = NoResult]
               ELSE /\ pc' = [pc EXCEPT ![c] = "done"]
                    /\ result' = [result EXCEPT ![c] = Err("MarshalFailed")]
    /\ UNCHANGED <<closed, inflight, chans, wsSent, wsCloseCount, panicked, replies, routed>>

\* resultCh := make(chan, 1); s.mu.Lock(); s.inflight[id] = resultCh; s.mu.Unlock()
\* An assignment to an entry of a nil map panics.
ExecuteRegister(c) ==
    /\ ~panicked
    /\ UNCHANGED notBidiVars
    /\ UNCHANGED closeLog
    /\ pc[c] = "register"
    /\ IF inflight.isNil
       THEN /\ panicked' = TRUE
            /\ pc' = [pc EXCEPT ![c] = "panic"]
            /\ UNCHANGED <<inflight, chans>>
       ELSE /\ inflight' = Register(inflight, callId[c])
            /\ chans' = (callId[c] :> NewChan) @@ chans
            /\ pc' = [pc EXCEPT ![c] = "send"]
            /\ UNCHANGED panicked
    /\ UNCHANGED <<closed, nextID, wsSent, wsCloseCount, callId, method, result, replies, routed>>

\* s.ws.Send(data): on an error the id is deregistered and the error returned.
\* A closed WebSocket refuses the frame.
ExecuteSend(c, sendOk) ==
    /\ ~panicked
    /\ UNCHANGED notBidiVars
    /\ UNCHANGED closeLog
    /\ pc[c] = "send"
    /\ sendOk => wsCloseCount = 0
    /\ IF sendOk
       THEN /\ wsSent' = wsSent \cup {[id |-> callId[c], method |-> method[c]]}
            /\ pc' = [pc EXCEPT ![c] = "wait"]
            /\ UNCHANGED <<inflight, result>>
       ELSE /\ inflight' = Deregister(inflight, callId[c])
            /\ result' = [result EXCEPT ![c] = Err("SendFailed")]
            /\ pc' = [pc EXCEPT ![c] = "done"]
            /\ UNCHANGED wsSent
    /\ UNCHANGED <<closed, nextID, chans, wsCloseCount, callId, method, panicked, replies, routed>>

\* case result := <-resultCh: return result, nil
\* A receive takes the buffered value; on a closed and empty channel it yields
\* the zero value (a nil json.RawMessage) at once.
ExecuteReceive(c) ==
    /\ ~panicked
    /\ UNCHANGED notBidiVars
    /\ UNCHANGED closeLog
    /\ pc[c] = "wait"
    /\ LET ch == chans[callId[c]] IN
       /\ ch.buf # <<>> \/ ch.closed
       /\ IF ch.buf # <<>>
          THEN /\ result' = [result EXCEPT ![c] = Ok(ch.buf[1])]
               /\ chans' = [chans EXCEPT ![callId[c]].buf = <<>>]
          ELSE /\ result' = [result EXCEPT ![c] = Ok(Nil)]
               /\ UNCHANGED chans
    /\ pc' = [pc EXCEPT ![c] = "done"]
    /\ UNCHANGED <<closed, nextID, inflight, wsSent, wsCloseCount, callId, method, panicked,
                   replies, routed>>

\* case <-ctx.Done(): the id is deregistered and ctx.Err() returned.
ExecuteCancel(c) ==
    /\ ~panicked
    /\ UNCHANGED notBidiVars
    /\ UNCHANGED closeLog
    /\ pc[c] = "wait"
    /\ inflight' = Deregister(inflight, callId[c])
    /\ result' = [result EXCEPT ![c] = Err("Canceled")]
    /\ pc' = [pc EXCEPT ![c] = "done"]
    /\ UNCHANGED <<closed, nextID, chans, wsSent, wsCloseCount, callId, method, panicked,
                   replies, routed>>

\* Bound on the Close calls made on one session.
MaxCloses == 2

\* A Close that does not look at s.closed.
CloseUnguarded == FALSE

\* if s.closed { return nil } in CDPSessionImpl.Close, read under s.mu.
AlreadyClosed == closed

\* The body of CDPSessionImpl.Close under s.mu: a second Close returns nil at
\* once; the first sets closed, closes every registered channel, drops the map
\* and returns what ws.Close() returns.
CDPClose(wsCloseOk) ==
    IF AlreadyClosed
    THEN /\ closeLog' = Append(closeLog, "nil")
         /\ UNCHANGED <<closed, chans, inflight, wsCloseCount>>
    ELSE /\ closed' = TRUE
         /\ chans' = [i \in DOMAIN chans |->
                         IF \E k \in DOMAIN inflight.m : inflight.m[k] = i
                         THEN [chans[i] EXCEPT !.closed = TRUE]
                         ELSE chans[i]]
         /\ inflight' = NilMap
         /\ wsCloseCount' = wsCloseCount + 1
         /\ closeLog' = Append(closeLog, IF wsCloseOk THEN "nil" ELSE "error")

\* CDPSessionImpl.Close.
Close(wsCloseOk) ==
    /\ ~panicked
    /\ UNCHANGED notBidiVars
    /\ Len(closeLog) < MaxCloses
    /\ CDPClose(wsCloseOk)
    /\ UNCHANGED <<nextID, wsSent, pc, callId, method, result, panicked, replies, routed>>

\* The remote end answers a command frame it has received with a response
\* frame {id, result}; it answers the frames in any order.
RemoteReply(f) ==
    /\ ~panicked
    /\ UNCHANGED notBidiVars
    /\ UNCHANGED closeLog
    /\ f \in wsSent
    /\ wsCloseCount = 0
    /\ \A r \in replies : r.id # f.id
    /\ replies' = replies \cup {[id |-> f.id, result |-> f]}
    /\ UNCHANGED <<closed, nextID, inflight, chans, wsSent, wsCloseCount, pc, callId, method,
                   result, panicked, routed>>

\* The reader loop takes a response frame off the socket and, under the lock,
\* hands its payload to the channel registered under the frame's id.
ReaderRoute(r) ==
    /\ ~panicked
    /\ UNCHANGED notBidiVars
    /\ UNCHANGED closeLog
    /\ r \in replies
    /\ \A j \in 1..Len(routed) : routed[j] # r.id
    /\ routed' = Append(routed, r.id)
    /\ IF ~inflight.isNil /\ r.id \in DOMAIN inflight.m
          /\ chans[inflight.m[r.id]].buf = <<>>
       THEN chans' = [chans EXCEPT ![inflight.m[r.id]].buf = <<r.result>>]
       ELSE UNCHANGED chans
    /\ UNCHANGED <<closed, nextID, inflight, wsSent, wsCloseCount, pc, callId, method, result,
                   panicked, replies>>


(***************************************************************************)
(* Session handles, element handles and the remote end                      *)
(***************************************************************************)

\* Bound on the number of sessions the remote end creates.
MaxSessions == 2

Empty == ""

\* The session ids the remote end hands out, never the same one twice.
SessionName(n) == ToString(n)
SessionNames == {SessionName(n) : n \in 1..MaxSessions}

\* What a call on a handle did: op, the handle's session id when it was called
\* (before), whether it returned an error (err), whether it issued an HTTP
\* request (sent), the session segment of the request's path (seg) and whether
\* that segment names a destroyed session (reuse).
\* For NewSession, gotId tells whether the reply carried a session id.
NoCall == [op |-> "none", before |-> Empty, err |-> FALSE, sent |-> FALSE,
           seg |-> Empty, reuse |-> FALSE, gotId |-> FALSE]
Local(op, before, e) ==
    [op |-> op, before |-> before, err |-> e, sent |-> FALSE, seg |-> Empty,
     reuse |-> FALSE, gotId |-> FALSE]
Dispatched(op, before, e, seg) ==
    [op |-> op, before |-> before, err |-> e, sent |-> TRUE, seg |-> seg,
     reuse |-> seg \in destroyed, gotId |-> FALSE]

SessionIdle ==
    /\ handles = {}
    /\ sessionID = Empty
    /\ id = Empty
    /\ elements = {}
    /\ issued = 0
    /\ destroyed = {}
    /\ last = NoCall

\* The replies of the remote end to POST /session: the request fails in the
\* transport, or is answered with an error, or with a success whose body may
\* carry the new session id at the top level, inside "value", or nowhere, and
\* may carry top-level capabilities.
NewSessionReplies ==
    {[status |-> "transport", top |-> FALSE, inValue |-> FALSE, caps |-> FALSE],
     [status |-> "error", top |-> FALSE, inValue |-> FALSE, caps |-> FALSE]}
    \cup [status : {"ok"}, top : BOOLEAN, inValue : BOOLEAN, caps : BOOLEAN]

\* The replies to any other request.
Replies == {"ok", "error", "transport"}

HasSessionId(reply) == reply.status = "ok" /\ (reply.top \/ reply.inValue)

\* The remote end creates a session for every success reply that carries an id.
RemoteCreates(reply) ==
    /\ HasSessionId(reply) => issued < MaxSessions
    /\ issued' = IF HasSessionId(reply) THEN issued + 1 ELSE issued

\* strings.ReplaceAll(path, "$sessionId", v) for the key sessionId of params:
\* a template whose $sessionId has no parameter keeps the token.
SessionSegment(params) ==
    IF "sessionId" \in DOMAIN params THEN params.sessionId ELSE "$sessionId"

NoParams == <<>>

\* ---- remote.WebDriver (src/remote/webdriver.go) ----

\* newSession: conn.Execute("newSession"), then response["sessionId"] and
\* response["capabilities"], both read at the top level of the reply.
newSession(reply, sid) ==
    IF reply.status # "ok" THEN [err |-> TRUE, SessionID |-> Empty]
    ELSE IF ~reply.top THEN [err |-> TRUE, SessionID |-> Empty]
    ELSE IF ~reply.caps THEN [err |-> TRUE, SessionID |-> Empty]
    ELSE [err |-> FALSE, SessionID |-> sid]

\* A NewSession that stores the session id as soon as the reply yields one,
\* before the capabilities are looked at.
SessionBoundBeforeCapabilities(cur, reply, sid) ==
    IF reply.status = "ok" /\ reply.top THEN sid ELSE cur

\* d.sessionID after NewSession's call of newSession: only a session that
\* newSession returned without error is stored.
SessionAfterNewSession(cur, reply, sid) ==
    LET session == newSession(reply, sid) IN
    IF session.err THEN cur ELSE session.SessionID

\* remote.New: the constructor; it calls newSession itself and returns the
\* driver only when that succeeded.
WebDriverNew(reply) ==
    LET session == newSession(reply, SessionName(issued + 1)) IN
    /\ UNCHANGED notSessionVars
    /\ "WebDriver" \notin handles
    /\ RemoteCreates(reply)
    /\ handles' = IF session.err THEN handles ELSE handles \cup {"WebDriver"}
    /\ sessionID' = SessionAfterNewSession(sessionID, reply, SessionName(issued + 1))
    /\ last' = [Dispatched("remote.New", sessionID, session.err, Empty)
                  EXCEPT !.gotId = HasSessionId(reply)]
    /\ UNCHANGED <<id, elements, destroyed>>

\* WebDriver.NewSession
WebDriverNewSession(reply) ==
    /\ UNCHANGED notSessionVars
    /\ "WebDriver" \in handles
    /\ IF sessionID # Empty
       THEN /\ last' = Local("WebDriver.NewSession", sessionID, TRUE)
            /\ UNCHANGED <<handles, sessionID, id, elements, issued, destroyed>>
       ELSE LET session == newSession(reply, SessionName(issued + 1)) IN
            /\ RemoteCreates(reply)
            /\ sessionID' = SessionAfterNewSession(sessionID, reply, SessionName(issued + 1))
            /\ last' = [Dispatched("WebDriver.NewSession", sessionID, session.err, Empty)
                          EXCEPT !.gotId = HasSessionId(reply)]
            /\ UNCHANGED <<handles, id, elements, destroyed>>

\* WebDriver.Execute: the session check, then conn.Execute(cmd, params).
\* Returns the record of the call; the reply decides the error.
WebDriverExecute(op, params, reply) ==
    IF sessionID = Empty
    THEN Local(op, sessionID, TRUE)
    ELSE Dispatched(op, sessionID, reply # "ok", SessionSegment(params))

\* WebDriver.Get: Execute("get", {"url": url})
WebDriverGet(reply) ==
    /\ UNCHANGED notSessionVars
    /\ "WebDriver" \in handles
    /\ last' = WebDriverExecute("WebDriver.Get", [url |-> "u"], reply)
    /\ UNCHANGED <<handles, sessionID, id, elements, issued, destroyed>>

\* WebDriver.FindElement: Execute("findElement", {using, value}); on success
\* NewElement(elementID, d.sessionID, d.conn).
WebDriverFindElement(reply) ==
    LET call == WebDriverExecute("WebDriver.FindElement",
                                 [using |-> "css selector", value |-> "v"], reply) IN
    /\ UNCHANGED notSessionVars
    /\ "WebDriver" \in handles
    /\ last' = call
    /\ elements' = IF call.err THEN elements
                   ELSE elements \cup {[id |-> "E", session |-> sessionID]}
    /\ UNCHANGED <<handles, sessionID, id, issued, destroyed>>

\* A session test that never finds the handle without a session.
AlwaysHasSession(sid) == FALSE

\* if d.sessionID == "" { return nil } in DeleteSession and Quit;
\* if wd.id == "" { return nil } in remoteWD.Quit.
NoSession(sid) == sid = Empty

\* WebDriver.DeleteSession: nil without a session, else
\* Execute("deleteSession", {"sessionId": d.sessionID}); sessionID is not touched.
WebDriverDeleteSession(reply) ==
    /\ UNCHANGED notSessionVars
    /\ "WebDriver" \in handles
    /\ IF NoSession(sessionID)
       THEN /\ last' = Local("WebDriver.DeleteSession", sessionID, FALSE)
            /\ UNCHANGED <<handles, sessionID, id, elements, issued, destroyed>>
       ELSE LET call == WebDriverExecute("WebDriver.DeleteSession",
                                         [sessionId |-> sessionID], reply) IN
            /\ last' = call
            /\ destroyed' = IF call.err THEN destroyed ELSE destroyed \cup {sessionID}
            /\ UNCHANGED <<handles, sessionID, id, elements, issued>>

\* WebDriver.Quit: nil without a session, else DeleteSession and, when that
\* succeeded, d.sessionID = "".
WebDriverQuit(reply) ==
    /\ UNCHANGED notSessionVars
    /\ "WebDriver" \in handles
    /\ IF NoSession(sessionID)
       THEN /\ last' = Local("WebDriver.Quit", sessionID, FALSE)
            /\ UNCHANGED <<handles, sessionID, id, elements, issued, destroyed>>
       ELSE LET call == WebDriverExecute("WebDriver.Quit",
                                         [sessionId |-> sessionID], reply) IN
            /\ last' = call
            /\ destroyed' = IF call.err THEN destroyed ELSE destroyed \cup {sessionID}
            /\ sessionID' = IF call.err THEN sessionID ELSE Empty
            /\ UNCHANGED <<handles, id, elements, issued>>

\* ---- webElement (src/unnamed/part_003) ----

\* webElement.Click: conn.Execute("clickElement", {sessionId: e.session, id: e.id}),
\* with no look at the driver's session.
WebElementClick(e, reply) ==
    /\ e \in elements
    /\ UNCHANGED notSessionVars
    /\ last' = Dispatched("webElement.Click", sessionID, reply # "ok",
                          SessionSegment([sessionId |-> e.session, id |-> e.id]))
    /\ UNCHANGED <<handles, sessionID, id, elements, issued, destroyed>>

\* ---- remoteWD (src/remote.go) ----

\* remoteWD.NewSession: POST /session whatever wd.id is; the id is taken from
\* the top-level sessionId, else from value.sessionId when wd.id is still empty.
\* A success reply without an id returns (wd.id, nil).
NewSessionStep(reply) ==
    LET sid == SessionName(issued + 1)
        e == reply.status # "ok"
        afterTop == IF reply.top THEN sid ELSE id
        afterValue == IF reply.inValue /\ afterTop = Empty THEN sid ELSE afterTop
    IN
    /\ RemoteCreates(reply)
    /\ id' = IF e THEN id ELSE afterValue
    /\ last' = [Dispatched("remoteWD.NewSession", id, e, Empty)
                  EXCEPT !.gotId = HasSessionId(reply)]

\* NewRemote: the constructor; it calls wd.NewSession and returns wd only when
\* that returned no error.
NewRemote(reply) ==
    /\ UNCHANGED notSessionVars
    /\ "remoteWD" \notin handles
    /\ NewSessionStep(reply)
    /\ handles' = IF reply.status # "ok" THEN handles ELSE handles \cup {"remoteWD"}
    /\ UNCHANGED <<sessionID, elements, destroyed>>

\* remoteWD.NewSession called on a driver NewRemote returned.
RemoteWDNewSession(reply) ==
    /\ UNCHANGED notSessionVars
    /\ "remoteWD" \in handles
    /\ NewSessionStep(reply)
    /\ UNCHANGED <<handles, sessionID, elements, destroyed>>

\* remoteWD.SwitchSession
RemoteWDSwitchSession(s) ==
    /\ UNCHANGED notSessionVars
    /\ "remoteWD" \in handles
    /\ id' = s
    /\ last' = Local("remoteWD.SwitchSession", id, FALSE)
    /\ UNCHANGED <<handles, sessionID, elements, issued, destroyed>>

\* remoteWD.voidCommand (here through remoteWD.Click): POST to
\* requestURL(urlTemplate, wd.id), with no check of wd.id.
RemoteWDVoidCommand(reply) ==
    /\ UNCHANGED notSessionVars
    /\ "remoteWD" \in handles
    /\ last' = Dispatched("remoteWD.Click", id, reply # "ok", id)
    /\ UNCHANGED <<handles, sessionID, id, elements, issued, destroyed>>

\* remoteWD.Quit: nil without a session, else DELETE /session/{id} and, on
\* success, wd.id = "".
RemoteWDQuit(reply) ==
    /\ UNCHANGED notSessionVars
    /\ "remoteWD" \in handles
    /\ IF NoSession(id)
       THEN /\ last' = Local("remoteWD.Quit", id, FALSE)
            /\ UNCHANGED <<handles, sessionID, id, elements, issued, destroyed>>
       ELSE /\ last' = Dispatched("remoteWD.Quit", id, reply # "ok", id)
            /\ destroyed' = IF reply = "ok" THEN destroyed \cup {id} ELSE destroyed
            /\ id' = IF reply = "ok" THEN Empty ELSE id
            /\ UNCHANGED <<handles, sessionID, elements, issued>>

SessionNext ==
    \/ \E reply \in NewSessionReplies : WebDriverNew(reply)
    \/ \E reply \in NewSessionReplies : NewRemote(reply)
    \/ \E reply \in NewSessionReplies : WebDriverNewSession(reply)
    \/ \E reply \in Replies : WebDriverGet(reply)
    \/ \E reply \in Replies : WebDriverFindElement(reply)
    \/ \E reply \in Replies : WebDriverDeleteSession(reply)
    \/ \E reply \in Replies : WebDriverQuit(reply)
    \/ \E e \in elements, reply \in Replies : WebElementClick(e, reply)
    \/ \E reply \in NewSessionReplies : RemoteWDNewSession(reply)
    \/ \E s \in {Empty} \cup SessionNames : RemoteWDSwitchSession(s)
    \/ \E reply \in Replies : RemoteWDVoidCommand(reply)
    \/ \E reply \in Replies : RemoteWDQuit(reply)

(***************************************************************************)
(* Action queues: ActionBuilder over a WebDriver, and remoteWD              *)
(***************************************************************************)

\* Bound on the actions queued on the builder's devices together, and on the
\* records stored in remoteWD.storedActions.
MaxQueue == 2

\* The builder's devices in the order NewActionBuilder appends them, with
\* their GetType().
DeviceOrder == <<"default mouse", "default keyboard", "default wheel">>
DeviceNames == {DeviceOrder[i] : i \in DOMAIN DeviceOrder}
DeviceType(d) ==
    CASE d = "default mouse" -> "pointer"
      [] d = "default keyboard" -> "key"
      [] d = "default wheel" -> "wheel"

\* The actions a caller queues.
ActionTokens == {"down", "up"}

\* Ways a request ends. Before anything is sent: the request cannot be built
\* (json.Marshal or http.NewRequest fails), the connection cannot be made.
\* After the request was sent: the reply is lost, is an error, is a success.
Outcomes == {"request", "connect", "lost", "error", "ok"}
Sent(outcome) == outcome \in {"lost", "error", "ok"}

RECURSIVE Concat(_)
Concat(seqs) == IF seqs = <<>> THEN <<>> ELSE Head(seqs) \o Concat(Tail(seqs))

\* The number of actions queued on all devices.
Queued(devs) ==
    Len(Concat([i \in DOMAIN DeviceOrder |-> devs[DeviceOrder[i]]]))

ActionsIdle ==
    /\ devices = [d \in DeviceNames |-> <<>>]
    /\ storedActions = <<>>
    /\ wirePayload = <<>>
    /\ addLog = <<>>
    /\ storeLog = <<>>

\* ---- ActionBuilder (src/actions/action_builder.go) ----

\* ActionBuilder.AddAction: the action goes to the first device of the type.
AddAction(deviceType, action) ==
    /\ UNCHANGED notActionVars
    /\ "WebDriver" \in handles
    /\ \E i \in DOMAIN DeviceOrder :
          /\ DeviceType(DeviceOrder[i]) = deviceType
          /\ \A j \in 1..(i - 1) : DeviceType(DeviceOrder[j]) # deviceType
          /\ Queued(devices) < MaxQueue
          /\ devices' = [devices EXCEPT ![DeviceOrder[i]] = Append(@, action)]
          /\ addLog' = Append(addLog, [dev |-> DeviceOrder[i], action |-> action])
    /\ last' = Local("ActionBuilder.AddAction", sessionID, FALSE)
    /\ UNCHANGED <<handles, sessionID, id, elements, issued, destroyed, storedActions,
                   wirePayload, storeLog>>

\* InputDevice.ClearActions on a device of the builder.
DeviceClearActions(d) ==
    /\ UNCHANGED notActionVars
    /\ "WebDriver" \in handles
    /\ devices' = [devices EXCEPT ![d] = <<>>]
    /\ addLog' = SelectSeq(addLog, LAMBDA e : e.dev # d)
    /\ last' = Local("InputDevice.ClearActions", sessionID, FALSE)
    /\ UNCHANGED <<handles, sessionID, id, elements, issued, destroyed, storedActions,
                   wirePayload, storeLog>>

\* The device records Perform composes: one per device with actions, in the
\* order of a.devices.
ComposeActions(devs) ==
    Concat([i \in DOMAIN DeviceOrder |->
              IF Len(devs[DeviceOrder[i]]) > 0
              THEN <<[type |-> DeviceType(DeviceOrder[i]), id |-> DeviceOrder[i],
                      actions |-> devs[DeviceOrder[i]]]>>
              ELSE <<>>])

\* The devices after Perform: Perform reads them and returns the error of
\* driver.Execute; it calls no ClearActions.
DevicesAfterPerform(devs, call) == devs

\* ActionBuilder.Perform: compose the payload, driver.Execute(W3CActions, params).
\* WebDriver.Execute refuses without a session; conn.Execute marshals the
\* parameters, builds the request and sends it.
Perform(outcome) ==
    LET records == ComposeActions(devices)
        call == IF sessionID = Empty \/ ~Sent(outcome)
                THEN Local("ActionBuilder.Perform", sessionID, TRUE)
                ELSE Dispatched("ActionBuilder.Perform", sessionID, outcome # "ok",
                                SessionSegment([actions |-> records]))
    IN
    /\ UNCHANGED notActionVars
    /\ "WebDriver" \in handles
    /\ last' = call
    /\ wirePayload' = IF call.sent THEN records ELSE wirePayload
    /\ devices' = DevicesAfterPerform(devices, call)
    /\ UNCHANGED <<handles, sessionID, id, elements, issued, destroyed, storedActions,
                   addLog, storeLog>>

\* ActionBuilder.ClearActions: driver.Execute(W3CClearActions, nil); the local
\* queues are not touched.
ClearActions(reply) ==
    /\ UNCHANGED notActionVars
    /\ "WebDriver" \in handles
    /\ last' = WebDriverExecute("ActionBuilder.ClearActions", NoParams, reply)
    /\ UNCHANGED <<handles, sessionID, id, elements, issued, destroyed, devices,
                   storedActions, wirePayload, addLog, storeLog>>

\* ---- remoteWD (src/remote.go) ----

\* A store that puts the new record in front of the older ones.
StoreInFront(stored, record) == <<record>> \o stored

\* wd.storedActions = append(wd.storedActions, record).
Store(stored, record) == Append(stored, record)

\* remoteWD.StoreKeyActions / StorePointerActions: one record per call.
StoreActions(type, inputID, acts) ==
    LET record == [type |-> type, id |-> inputID, actions |-> acts] IN
    /\ UNCHANGED notActionVars
    /\ "remoteWD" \in handles
    /\ Len(storedActions) < MaxQueue
    /\ storedActions' = Store(storedActions, record)
    /\ storeLog' = Append(storeLog, record)
    /\ last' = Local("remoteWD.StoreActions", id, FALSE)
    /\ UNCHANGED <<handles, sessionID, id, elements, issued, destroyed, devices,
                   wirePayload, addLog>>

\* wd.storedActions = nil, whatever voidCommand returned.
StoredAfterPerform(stored, call) == <<>>

\* remoteWD.PerformActions: voidCommand("/session/%s/actions", {"actions":
\* wd.storedActions}) with no check of wd.id, then wd.storedActions = nil.
PerformActions(outcome) ==
    LET call == IF Sent(outcome)
                THEN Dispatched("remoteWD.PerformActions", id, outcome # "ok", id)
                ELSE Local("remoteWD.PerformActions", id, TRUE)
    IN
    /\ UNCHANGED notActionVars
    /\ "remoteWD" \in handles
    /\ last' = call
    /\ wirePayload' = IF call.sent THEN storedActions ELSE wirePayload
    /\ storedActions' = StoredAfterPerform(storedActions, call)
    /\ storeLog' = <<>>
    /\ UNCHANGED <<handles, sessionID, id, elements, issued, destroyed, devices, addLog>>

\* remoteWD.ReleaseActions: DELETE /session/{id}/actions.
ReleaseActions(outcome) ==
    /\ UNCHANGED notActionVars
    /\ "remoteWD" \in handles
    /\ last' = IF Sent(outcome)
               THEN Dispatched("remoteWD.ReleaseActions", id, outcome # "ok", id)
               ELSE Local("remoteWD.ReleaseActions", id, TRUE)
    /\ UNCHANGED <<handles, sessionID, id, elements, issued, destroyed, devices,
                   storedActions, wirePayload, addLog, storeLog>>

\* The lists of actions one Store call is given.
StoreArgs == {<<>>} \cup {<<a>> : a \in ActionTokens}

ActionsNext ==
    \/ \E t \in {"pointer", "key", "wheel"}, a \in ActionTokens : AddAction(t, a)
    \/ \E d \in DeviceNames : DeviceClearActions(d)
    \/ \E outcome \in Outcomes : Perform(outcome)
    \/ \E reply \in Replies : ClearActions(reply)
    \/ \E t \in {"key", "pointer"}, acts \in StoreArgs : StoreActions(t, "dev", acts)
    \/ \E outcome \in Outcomes : PerformActions(outcome)
    \/ \E outcome \in Outcomes : ReleaseActions(outcome)

(***************************************************************************)
(* Polling: remoteWD.WaitWithTimeoutAndInterval                             *)
(***************************************************************************)

\* Bounds on the arguments, in ticks of the clock.
MaxTimeout == 4
MaxInterval == 2

Timeouts == 0..MaxTimeout
Intervals == 1..MaxInterval

\* What one invocation of cond returns: (true, nil), (false, nil), (_, err).
CondResults == {"true", "false", "error"}

WaitIdle ==
    /\ waitPc = "idle"
    /\ timeout = 0
    /\ interval = 1
    /\ elapsed = 0
    /\ condCalls = 0
    /\ sleeps = 0
    /\ condResult = "none"
    /\ waitResult = "none"

\* The test that ends the loop once cond has returned (false, nil).
TimedOut(e, t) == e > t

\* A loop that sleeps before it first invokes cond.
SleepBeforeCond == "sleep"

\* for { ok, err := cond(wd) ...: the loop begins with the call of cond.
LoopEntry == "cond"

\* startTime := time.Now() and entry into the loop.
WaitBegin(t, i) ==
    /\ UNCHANGED notWaitVars
    /\ waitPc \in {"idle", "done"}
    /\ waitPc' = LoopEntry
    /\ timeout' = t
    /\ interval' = i
    /\ elapsed' = 0
    /\ condCalls' = 0
    /\ sleeps' = 0
    /\ condResult' = "none"
    /\ waitResult' = "none"

\* A loop that looks at the clock before it looks at the error of cond.
ClockBeforeError(r, e, t) ==
    IF TimedOut(e, t) /\ r # "true" THEN "Timeout"
    ELSE IF r = "error" THEN "PredicateError"
    ELSE IF r = "true" THEN "ok"
    ELSE "none"

\* What one turn of the loop does once cond has returned r after e ticks:
\* the error first, then success, then the test of the clock.
WaitOutcome(r, e, t) ==
    IF r = "error" THEN "PredicateError"
    ELSE IF r = "true" THEN "ok"
    ELSE IF TimedOut(e, t) THEN "Timeout"
    ELSE "none"

\* One turn of the loop up to the sleep: cond(wd) is invoked (it takes no
\* time) and the call returns or goes to sleep.
WaitTurn(r) ==
    /\ UNCHANGED notWaitVars
    /\ waitPc = "cond"
    /\ condCalls' = condCalls + 1
    /\ condResult' = r
    /\ waitResult' = WaitOutcome(r, elapsed, timeout)
    /\ waitPc' = IF waitResult' = "none" THEN "sleep" ELSE "done"
    /\ UNCHANGED <<timeout, interval, elapsed, sleeps>>

\* time.Sleep(interval), taken as lasting exactly interval.
WaitSleep ==
    /\ UNCHANGED notWaitVars
    /\ waitPc = "sleep"
    /\ elapsed' = elapsed + interval
    /\ sleeps' = sleeps + 1
    /\ waitPc' = "cond"
    /\ UNCHANGED <<timeout, interval, condCalls, condResult, waitResult>>

WaitNext ==
    \/ \E t \in Timeouts, i \in Intervals : WaitBegin(t, i)
    \/ \E r \in CondResults : WaitTurn(r)
    \/ WaitSleep

(***************************************************************************)
(* Driver services: common.Service and the older selenium.Service           *)
(***************************************************************************)

\* Bound on the driver processes spawned, and on the attempts of
\* waitUntilConnectable (maxAttempts, 70 in the source).
MaxProcs == 2
MaxAttempts == 2

\* A driver process (an entry of procs) is "running" (spawned, port not open
\* yet), "listening" or "exited".

\* No Stop has been called yet.
NoStop == [impl |-> "none", again |-> FALSE, err |-> FALSE, kill |-> FALSE,
           shutdown |-> FALSE, wait |-> FALSE]

\* No constructor of selenium.Service has returned a service.
NoLegacy == [pid |-> 0, shutdown |-> FALSE]

ServiceIdle ==
    /\ procs = <<>>
    /\ reaped = {}
    /\ svcProcess = 0
    /\ svcPc = "idle"
    /\ svcAttempt = 0
    /\ startResult = "none"
    /\ legacy = NoLegacy
    /\ stopped = [common |-> FALSE, legacy |-> FALSE]
    /\ lastStop = NoStop

\* Whether a signal reaches process p. A live process takes it. One whose
\* exit cmd.Wait collected gives "os: process already finished". One that
\* exited and was not waited for answers as the platform does (a zombie
\* takes the signal, a released handle does not): `zombie` is that answer.
Signalled(ps, rp, p, zombie) ==
    IF p \in rp THEN FALSE
    ELSE IF ps[p] = "exited" THEN zombie
    ELSE TRUE

\* isPortConnectable(s.Port): some driver process listens.
PortConnectable(ps) == \E p \in DOMAIN ps : ps[p] = "listening"

\* The body of common.Service.Stop on process handle h: what it leaves in
\* s.process, the processes after it, and what it did and returned.
\* `obeys`: the driver exits on GET /shutdown.
CommonStop(h, ps, rp, obeys, zombie) ==
    IF h = 0
    THEN [process |-> 0, procs |-> ps, err |-> FALSE, kill |-> FALSE, shutdown |-> FALSE]
    ELSE LET afterShutdown ==
                 IF ps[h] = "listening" /\ obeys THEN [ps EXCEPT ![h] = "exited"] ELSE ps
             killed == Signalled(afterShutdown, rp, h, zombie)
         IN IF killed
            THEN [process |-> 0, procs |-> [afterShutdown EXCEPT ![h] = "exited"],
                  err |-> FALSE, kill |-> TRUE, shutdown |-> TRUE]
            ELSE [process |-> h, procs |-> afterShutdown,
                  err |-> TRUE, kill |-> TRUE, shutdown |-> TRUE]

\* common.Service.Start up to the polling loop: exec.Command, cmd.Start,
\* s.cmd = cmd, s.process = cmd.Process.
ServiceStart(spawnOk) ==
    /\ UNCHANGED notServiceVars
    /\ svcPc = "idle"
    /\ IF ~spawnOk
       THEN /\ startResult' = "error"
            /\ UNCHANGED <<procs, svcProcess, svcPc, svcAttempt, stopped>>
       ELSE /\ Len(procs) < MaxProcs
            /\ procs' = Append(procs, "running")
            /\ svcProcess' = Len(procs) + 1
            /\ svcPc' = "polling"
            /\ svcAttempt' = 0
            /\ startResult' = "none"
            /\ stopped' = [stopped EXCEPT !.common = FALSE]
    /\ UNCHANGED <<reaped, legacy, lastStop>>

\* One turn of waitUntilConnectable, and the end of Start when the loop ends:
\* on an error Start calls s.Stop() and returns the error.
ServicePoll(obeys, zombie) ==
    LET running == svcProcess # 0 /\ Signalled(procs, reaped, svcProcess, zombie)
        failed == svcAttempt >= MaxAttempts \/ ~running
        stop == CommonStop(svcProcess, procs, reaped, obeys, zombie)
    IN
    /\ UNCHANGED notServiceVars
    /\ svcPc = "polling"
    /\ IF failed
       THEN /\ startResult' = "error"
            /\ svcPc' = "idle"
            /\ svcProcess' = stop.process
            /\ procs' = stop.procs
            /\ lastStop' = [impl |-> "common", again |-> FALSE, err |-> stop.err,
                            kill |-> stop.kill, shutdown |-> stop.shutdown, wait |-> FALSE]
            /\ UNCHANGED <<svcAttempt, stopped>>
       ELSE IF PortConnectable(procs)
       THEN /\ startResult' = "ok"
            /\ svcPc' = "idle"
            /\ UNCHANGED <<svcProcess, procs, lastStop, svcAttempt, stopped>>
       ELSE /\ svcAttempt' = svcAttempt + 1
            /\ UNCHANGED <<svcProcess, procs, lastStop, svcPc, startResult, stopped>>
    /\ UNCHANGED <<reaped, legacy>>

\* common.Service.Stop, called by the owner of the service.
ServiceStop(obeys, zombie) ==
    LET stop == CommonStop(svcProcess, procs, reaped, obeys, zombie) IN
    /\ UNCHANGED notServiceVars
    /\ svcPc = "idle"
    /\ svcProcess' = stop.process
    /\ procs' = stop.procs
    /\ lastStop' = [impl |-> "common", again |-> stopped.common, err |-> stop.err,
                    kill |-> stop.kill, shutdown |-> stop.shutdown, wait |-> FALSE]
    /\ stopped' = [stopped EXCEPT !.common = @ \/ ~stop.err]
    /\ UNCHANGED <<reaped, svcPc, svcAttempt, startResult, legacy>>

\* NewSeleniumService / NewChromeDriverService / NewGeckoDriverService:
\* newService and start(port). The service is returned only when /status
\* answered; `shutdown` is whether the service has a shutdown URL.
LegacyNewService(shutdown, outcome) ==
    /\ UNCHANGED notServiceVars
    /\ legacy.pid = 0
    /\ CASE outcome = "spawnFails" -> UNCHANGED <<procs, legacy, stopped>>
         [] outcome = "neverReady" ->
              /\ Len(procs) < MaxProcs
              /\ procs' = Append(procs, "running")
              /\ UNCHANGED <<legacy, stopped>>
         [] outcome = "ready" ->
              /\ Len(procs) < MaxProcs
              /\ procs' = Append(procs, "listening")
              /\ legacy' = [pid |-> Len(procs) + 1, shutdown |-> shutdown]
              /\ stopped' = [stopped EXCEPT !.legacy = FALSE]
    /\ UNCHANGED <<reaped, svcProcess, svcPc, svcAttempt, startResult, lastStop>>

\* selenium.Service.Stop: Process.Kill or GET of the shutdown URL, then
\* cmd.Wait. `waitOk`: the exit status cmd.Wait reports is accepted (exit 0
\* or "signal: killed").
LegacyStop(zombie, waitOk) ==
    LET p == legacy.pid
        again == stopped.legacy
        signalled == Signalled(procs, reaped, p, zombie)
        asked == procs[p] = "listening"
        reached == IF legacy.shutdown THEN asked ELSE signalled
        waited == reached /\ p \notin reaped
        ownExit == procs[p] = "exited"
        err == ~reached \/ ~waited \/ (ownExit /\ ~waitOk)
    IN
    /\ UNCHANGED notServiceVars
    /\ p # 0
    /\ procs' = IF reached THEN [procs EXCEPT ![p] = "exited"] ELSE procs
    /\ reaped' = IF waited THEN reaped \cup {p} ELSE reaped
    /\ lastStop' = [impl |-> "legacy", again |-> again, err |-> err,
                    kill |-> ~legacy.shutdown, shutdown |-> legacy.shutdown,
                    wait |-> reached]
    /\ stopped' = [stopped EXCEPT !.legacy = @ \/ ~err]
    /\ UNCHANGED <<svcProcess, svcPc, svcAttempt, startResult, legacy>>

\* The driver opens its port.
ProcessListens(p) ==
    /\ UNCHANGED notServiceVars
    /\ procs[p] = "running"
    /\ procs' = [procs EXCEPT ![p] = "listening"]
    /\ UNCHANGED <<reaped, svcProcess, svcPc, svcAttempt, startResult, legacy,
                   stopped, lastStop>>

\* The driver process exits by itself.
ProcessExits(p) ==
    /\ UNCHANGED notServiceVars
    /\ procs[p] \in {"running", "listening"}
    /\ procs' = [procs EXCEPT ![p] = "exited"]
    /\ UNCHANGED <<reaped, svcProcess, svcPc, svcAttempt, startResult, legacy,
                   stopped, lastStop>>

ServiceNext ==
    \/ \E spawnOk \in BOOLEAN : ServiceStart(spawnOk)
    \/ \E obeys \in BOOLEAN, zombie \in BOOLEAN : ServicePoll(obeys, zombie)
    \/ \E obeys \in BOOLEAN, zombie \in BOOLEAN : ServiceStop(obeys, zombie)
    \/ \E shutdown \in BOOLEAN, outcome \in {"spawnFails", "neverReady", "ready"} :
          LegacyNewService(shutdown, outcome)
    \/ \E zombie \in BOOLEAN, waitOk \in BOOLEAN : LegacyStop(zombie, waitOk)
    \/ \E p \in DOMAIN procs : ProcessListens(p)
    \/ \E p \in DOMAIN procs : ProcessExits(p)

(***************************************************************************)
(* Command dispatch: RemoteConnection.Execute and executeCommand            *)
(***************************************************************************)

\* Strings are sequences of characters. The letters stand for the names of
\* the path variables: s for sessionId, n for name.
Letters == {"s", "n"}

\* Parameter keys and the strings fmt.Sprint makes of parameter values (a
\* session id from the remote end, a cookie name from the caller).
Keys == {<<"s">>, <<"n">>}
Values == {<<"1">>, <<"$", "s">>}

\* command.EndpointMap: DeleteSession, GetCookie.
EndpointMap ==
    [deleteSession |-> [method |-> "DELETE", path |-> <<"/", "$", "s">>],
     getCookie     |-> [method |-> "GET", path |-> <<"/", "$", "s", "/", "$", "n">>]]

\* The command names a caller passes: those of the table, one a client adds
\* with AddCommand, one that is in no table.
CommandNames == DOMAIN EndpointMap \cup {"custom", "bogus"}

\* The endpoint AddCommand is given for "custom".
CustomEndpoint == [method |-> "GET", path |-> <<"/", "$", "n">>]

\* HTTP statuses of a reply, on both sides of [200,300).
Statuses == {199, 200, 299, 300, 500}

\* Bodies of a reply: not JSON at all (wrong content type), JSON that does
\* not parse, an object with the W3C error fields at the top, one with them
\* in "value", one without them.
Bodies == {"notJSON", "malformed", "errorTop", "errorValue", "plain"}

\* What the transport does with a request: it cannot be built, it cannot be
\* delivered, or a reply comes back.
Transports == {[kind |-> k, status |-> 0, body |-> "none"] : k \in {"request", "connect"}}
              \cup {[kind |-> "reply", status |-> st, body |-> b] : st \in Statuses, b \in Bodies}

NoDispatch == [impl |-> "none", cmd |-> "none", known |-> FALSE, complete |-> FALSE,
               url |-> <<>>, sent |-> FALSE, status |-> 0, body |-> "none",
               err |-> FALSE, kind |-> "none"]

ConnIdle ==
    /\ commandMap = EndpointMap
    /\ connLast = NoDispatch

\* s begins with prefix.
HasPrefix(str, prefix) ==
    /\ Len(str) >= Len(prefix)
    /\ SubSeq(str, 1, Len(prefix)) = prefix

\* strings.ReplaceAll(str, old, new) for a non-empty old: the occurrences of
\* old that do not overlap, from the left.
RECURSIVE ReplaceAll(_, _, _)
ReplaceAll(str, old, new) ==
    IF Len(str) < Len(old) THEN str
    ELSE IF HasPrefix(str, old)
    THEN new \o ReplaceAll(SubSeq(str, Len(old) + 1, Len(str)), old, new)
    ELSE <<Head(str)>> \o ReplaceAll(Tail(str), old, new)

\* for k, v := range params { path = strings.ReplaceAll(path, "$"+k, fmt.Sprint(v)) }
\* with the keys visited in `order`.
RECURSIVE Substitute(_, _, _)
Substitute(path, params, order) ==
    IF order = <<>> THEN path
    ELSE Substitute(ReplaceAll(path, <<"$">> \o Head(order), params[Head(order)]),
                    params, Tail(order))

\* The run of letters at the start of str.
RECURSIVE Name(_)
Name(str) ==
    IF str = <<>> \/ Head(str) \notin Letters THEN <<>>
    ELSE <<Head(str)>> \o Name(Tail(str))

\* The $name tokens of a path template.
RECURSIVE Tokens(_)
Tokens(str) ==
    IF str = <<>> THEN {}
    ELSE IF Head(str) = "$" THEN {Name(Tail(str))} \cup Tokens(Tail(str))
    ELSE Tokens(Tail(str))

\* The orders in which range can visit the keys of params.
Orders(params) ==
    {o \in [1..Cardinality(DOMAIN params) -> DOMAIN params] :
        \A k \in DOMAIN params : \E j \in DOMAIN o : o[j] = k}

\* The parameter maps a caller passes.
ParamMaps == UNION {[ks -> Values] : ks \in SUBSET Keys}

\* What Execute makes of a reply: the status first, then the decoding of the
\* body into a map; the fields of the object are left to the caller.
ConnReplyError(t) ==
    \/ t.status < 200 \/ t.status >= 300
    \/ t.body \in {"notJSON", "malformed"}

\* RemoteConnection.AddCommand.
AddCommand(cmd, endpoint) ==
    /\ UNCHANGED notConnVars
    /\ cmd \notin DOMAIN commandMap
    /\ commandMap' = [c \in DOMAIN commandMap \cup {cmd} |->
                        IF c = cmd THEN endpoint ELSE commandMap[c]]
    /\ UNCHANGED connLast

\* RemoteConnection.Execute(ctx, cmd, params).
ConnExecute(cmd, params, order, t) ==
    LET known == cmd \in DOMAIN commandMap
        url == Substitute(commandMap[cmd].path, params, order)
        complete == Tokens(commandMap[cmd].path) \subseteq DOMAIN params
        sent == t.kind = "reply"
    IN
    /\ UNCHANGED notConnVars
    /\ connLast' =
          IF ~known
          THEN [impl |-> "RemoteConnection", cmd |-> cmd, known |-> FALSE,
                complete |-> FALSE, url |-> <<>>, sent |-> FALSE, status |-> 0,
                body |-> "none", err |-> TRUE, kind |-> "unknown command"]
          ELSE [impl |-> "RemoteConnection", cmd |-> cmd, known |-> TRUE,
                complete |-> complete, url |-> url, sent |-> sent,
                status |-> t.status, body |-> t.body,
                err |-> (~sent \/ ConnReplyError(t)),
                kind |-> IF ~sent \/ ConnReplyError(t) THEN "error" ELSE "none"]
    /\ UNCHANGED commandMap

\* What executeCommand makes of a reply: an error for a body that is not
\* JSON or does not parse, the W3C error of the body if it has one, and
\* otherwise the body as the result.
LegacyReplyKind(t) ==
    CASE t.body \in {"notJSON", "malformed"} -> "error"
      [] t.body \in {"errorTop", "errorValue"} -> "W3C"
      [] OTHER -> "none"

\* executeCommand(method, url, data, httpCli).
LegacyExecuteCommand(t) ==
    LET sent == t.kind = "reply"
        kind == IF sent THEN LegacyReplyKind(t) ELSE "error"
    IN
    /\ UNCHANGED notConnVars
    /\ connLast' = [impl |-> "executeCommand", cmd |-> "none", known |-> TRUE,
                    complete |-> TRUE, url |-> <<>>, sent |-> sent,
                    status |-> t.status, body |-> t.body,
                    err |-> (kind # "none"), kind |-> kind]
    /\ UNCHANGED commandMap

ConnNext ==
    \/ AddCommand("custom", CustomEndpoint)
    \/ \E cmd \in CommandNames, params \in ParamMaps, t \in Transports :
          \E order \in Orders(params) : ConnExecute(cmd, params, order, t)
    \/ \E t \in Transports : LegacyExecuteCommand(t)

(***************************************************************************)
(* BiDi events: bidi.Session over a CDPSessionImpl                          *)
(***************************************************************************)

\* Bounds on the events read from the socket and on the handlers subscribed
\* at one time.
MaxEvents == 2
MaxSubs == 2

EventTypes == {"log.entryAdded", "network.responseCompleted"}
HandlerFuncs == {"h1", "h2"}

\* make(map[string][]func(json.RawMessage)) and the nil map Close leaves.
NoHandlers == [isNil |-> FALSE, m |-> [t \in EventTypes |-> <<>>]]
NilHandlers == [isNil |-> TRUE, m |-> [t \in EventTypes |-> <<>>]]

\* No HandleEvent call is in progress.
NoEvent == [ev |-> 0, snap |-> <<>>, k |-> 0]

EventsIdle ==
    /\ handlers = NoHandlers
    /\ sessClosed = FALSE
    /\ arrived = <<>>
    /\ handled = {}
    /\ evPc = NoEvent
    /\ invoked = <<>>

\* The number of handlers in the map.
Subscribed(h) == Cardinality({<<t, i>> \in EventTypes \X (1..MaxSubs + 1) : i <= Len(h.m[t])})

\* Session.Subscribe: s.handlers[eventType] = append(s.handlers[eventType], handler).
\* An assignment to an entry of a nil map panics.
Subscribe(eventType, handler) ==
    /\ ~panicked
    /\ UNCHANGED notEventVars
    /\ IF handlers.isNil
       THEN /\ panicked' = TRUE
            /\ UNCHANGED handlers
       ELSE /\ Subscribed(handlers) < MaxSubs
            /\ handlers' = [handlers EXCEPT !.m[eventType] = Append(@, handler)]
            /\ UNCHANGED panicked
    /\ UNCHANGED <<closed, nextID, inflight, chans, wsSent, wsCloseCount, pc, callId,
                   method, result, replies, routed, closeLog>>
    /\ UNCHANGED <<sessClosed, arrived, handled, evPc, invoked>>

\* Session.Unsubscribe: delete(s.handlers, eventType), a no-op on a nil map.
Unsubscribe(eventType) ==
    /\ ~panicked
    /\ UNCHANGED notEventVars
    /\ UNCHANGED bidiVars
    /\ handlers' = [handlers EXCEPT !.m[eventType] = <<>>]
    /\ UNCHANGED <<sessClosed, arrived, handled, evPc, invoked>>

\* An event frame (no id, a method) is read from the socket.
EventArrives(eventType) ==
    /\ ~panicked
    /\ UNCHANGED notEventVars
    /\ UNCHANGED bidiVars
    /\ Len(arrived) < MaxEvents
    /\ arrived' = Append(arrived, eventType)
    /\ UNCHANGED <<handlers, sessClosed, handled, evPc, invoked>>

\* A reader that takes the newest event first.
NewestEvent(pending) == CHOOSE e \in pending : \A f \in pending : f <= e

\* The event the reader loop dispatches next: the oldest it has read and not
\* dispatched.
NextEvent(pending) == CHOOSE e \in pending : \A f \in pending : e <= f

\* The reader loop calls HandleEvent for its next event; HandleEvent copies
\* s.handlers[eventType] under the read lock.
HandleEventBegin ==
    LET pending == DOMAIN arrived \ handled
        e == NextEvent(pending)
    IN
    /\ ~panicked
    /\ UNCHANGED notEventVars
    /\ UNCHANGED bidiVars
    /\ evPc.ev = 0
    /\ pending # {}
    /\ handled' = handled \cup {e}
    /\ evPc' = IF handlers.m[arrived[e]] = <<>>
               THEN NoEvent
               ELSE [ev |-> e, snap |-> handlers.m[arrived[e]], k |-> 1]
    /\ UNCHANGED <<handlers, sessClosed, arrived, invoked>>

\* for _, handler := range handlers { handler(data) }: one call of a handler.
HandleEventInvoke ==
    /\ ~panicked
    /\ UNCHANGED notEventVars
    /\ UNCHANGED bidiVars
    /\ evPc.ev # 0
    /\ invoked' = Append(invoked, [h |-> evPc.snap[evPc.k], ev |-> evPc.ev])
    /\ evPc' = IF evPc.k = Len(evPc.snap) THEN NoEvent ELSE [evPc EXCEPT !.k = @ + 1]
    /\ UNCHANGED <<handlers, sessClosed, arrived, handled>>

\* Session.Close under s.mu: a second Close returns nil at once; the first
\* sets closed, drops the handlers and returns what s.cdp.Close() returns
\* (an error wrapped).
SessionClose(wsCloseOk) ==
    /\ ~panicked
    /\ UNCHANGED notEventVars
    /\ Len(closeLog) < MaxCloses
    /\ IF sessClosed
       THEN /\ closeLog' = Append(closeLog, "nil")
            /\ UNCHANGED <<handlers, sessClosed, closed, chans, inflight, wsCloseCount>>
       ELSE /\ sessClosed' = TRUE
            /\ handlers' = NilHandlers
            /\ CDPClose(wsCloseOk)
    /\ UNCHANGED <<nextID, wsSent, pc, callId, method, result, panicked, replies, routed>>
    /\ UNCHANGED <<arrived, handled, evPc, invoked>>

\* The BiDi session with its callers, its reader loop and both of its Close
\* methods.
BidiNext ==
    \/ \E c \in Callers, m \in Methods, ok \in BOOLEAN : ExecuteBegin(c, m, ok)
    \/ \E c \in Callers : ExecuteRegister(c)
    \/ \E c \in Callers, ok \in BOOLEAN : ExecuteSend(c, ok)
    \/ \E c \in Callers : ExecuteReceive(c)
    \/ \E c \in Callers : ExecuteCancel(c)
    \/ \E ok \in BOOLEAN : Close(ok)
    \/ \E ok \in BOOLEAN : SessionClose(ok)
    \/ \E f \in wsSent : RemoteReply(f)
    \/ \E r \in replies : ReaderRoute(r)

EventsNext ==
    \/ \E t \in EventTypes, h \in HandlerFuncs : Subscribe(t, h)
    \/ \E t \in EventTypes : Unsubscribe(t)
    \/ \E t \in EventTypes : EventArrives(t)
    \/ HandleEventBegin
    \/ HandleEventInvoke
    \/ \E ok \in BOOLEAN : SessionClose(ok)

(***************************************************************************)
(* Keyboard actions: actions.KeyInput and remoteWD.KeyDown / KeyUp          *)
(***************************************************************************)

\* Bound on the actions held by the keyboard device.
MaxKeyQueue == 4

\* The strings given to the key calls, as sequences of characters.
KeyStrings == {<<>>, <<"a">>, <<"a", "b">>}

NoKeyCall == [op |-> "none", arg |-> <<>>, before |-> <<>>]

KeysIdle ==
    /\ keyboard = <<>>
    /\ keySent = <<>>
    /\ keyLast = NoKeyCall

\* NewKeyAction(actionType, value).
NewKeyAction(actionType, value) == [type |-> actionType, value |-> value]

\* KeyInput.KeyDown: one keyDown action whose value is the whole string.
KeyInputKeyDown(value) ==
    /\ UNCHANGED notKeyVars
    /\ Len(keyboard) < MaxKeyQueue
    /\ keyboard' = Append(keyboard, NewKeyAction("keyDown", value))
    /\ keyLast' = [op |-> "KeyInput.KeyDown", arg |-> value, before |-> keyboard]
    /\ UNCHANGED keySent

\* KeyInput.KeyUp: one keyUp action whose value is the whole string.
KeyInputKeyUp(value) ==
    /\ UNCHANGED notKeyVars
    /\ Len(keyboard) < MaxKeyQueue
    /\ keyboard' = Append(keyboard, NewKeyAction("keyUp", value))
    /\ keyLast' = [op |-> "KeyInput.KeyUp", arg |-> value, before |-> keyboard]
    /\ UNCHANGED keySent

\* for _, char := range value { k.KeyDown(string(char)); k.KeyUp(string(char)) }
RECURSIVE KeysTyped(_)
KeysTyped(value) ==
    IF value = <<>> THEN <<>>
    ELSE <<NewKeyAction("keyDown", <<Head(value)>>), NewKeyAction("keyUp", <<Head(value)>>)>>
         \o KeysTyped(Tail(value))

\* KeyInput.SendKeys.
KeyInputSendKeys(value) ==
    /\ UNCHANGED notKeyVars
    /\ Len(keyboard) + 2 * Len(value) <= MaxKeyQueue
    /\ keyboard' = keyboard \o KeysTyped(value)
    /\ keyLast' = [op |-> "KeyInput.SendKeys", arg |-> value, before |-> keyboard]
    /\ UNCHANGED keySent

\* KeyInput.ClearActions.
KeyInputClearActions ==
    /\ UNCHANGED notKeyVars
    /\ keyboard' = <<>>
    /\ keyLast' = [op |-> "KeyInput.ClearActions", arg |-> <<>>, before |-> keyboard]
    /\ UNCHANGED keySent

\* The actions remoteWD.keyAction builds: one of the given type per character.
keyAction(action, keys) == [i \in 1..Len(keys) |-> [type |-> action, value |-> <<keys[i]>>]]

\* remoteWD.KeyDown: keyAction("keyDown", keys), posted at once to
\* /session/{id}/actions as the actions of the "default keyboard" source.
RemoteWDKeyDown(keys) ==
    /\ UNCHANGED notKeyVars
    /\ keySent' = keyAction("keyDown", keys)
    /\ keyLast' = [op |-> "remoteWD.KeyDown", arg |-> keys, before |-> <<>>]
    /\ UNCHANGED keyboard

\* remoteWD.KeyUp: keyAction("keyUp", keys).
RemoteWDKeyUp(keys) ==
    /\ UNCHANGED notKeyVars
    /\ keySent' = keyAction("keyUp", keys)
    /\ keyLast' = [op |-> "remoteWD.KeyUp", arg |-> keys, before |-> <<>>]
    /\ UNCHANGED keyboard

KeysNext ==
    \/ \E v \in KeyStrings : KeyInputKeyDown(v)
    \/ \E v \in KeyStrings : KeyInputKeyUp(v)
    \/ \E v \in KeyStrings : KeyInputSendKeys(v)
    \/ KeyInputClearActions
    \/ \E v \in KeyStrings : RemoteWDKeyDown(v)
    \/ \E v \in KeyStrings : RemoteWDKeyUp(v)

(***************************************************************************)
(* Specifications: one per subsystem, the others at rest                    *)
(***************************************************************************)

\* Every object as its constructor leaves it.
Init ==
    /\ BidiInit /\ SessionIdle /\ ActionsIdle /\ WaitIdle /\ ServiceIdle /\ ConnIdle
    /\ EventsIdle
    /\ KeysIdle

\* One handle as New or NewRemote returned it, still bound or unbound again
\* after its Quit.
ActionsInit ==
    /\ BidiInit
    /\ ActionsIdle
    /\ WaitIdle
    /\ ServiceIdle
    /\ ConnIdle
    /\ EventsIdle
    /\ KeysIdle
    /\ handles \in {{"WebDriver"}, {"remoteWD"}}
    /\ sessionID \in {SessionName(1), Empty}
    /\ id \in {SessionName(1), Empty}
    /\ "WebDriver" \notin handles => sessionID = Empty
    /\ "remoteWD" \notin handles => id = Empty
    /\ issued = 1
    /\ destroyed = IF sessionID = Empty /\ id = Empty THEN {SessionName(1)} ELSE {}
    /\ elements = {}
    /\ last = NoCall

SpecBidi == Init /\ [][BidiNext]_vars

SpecSession == Init /\ [][SessionNext]_vars

SpecActions == ActionsInit /\ [][ActionsNext]_vars

SpecWait == Init /\ [][WaitNext]_vars

SpecService == Init /\ [][ServiceNext]_vars

SpecConn == Init /\ [][ConnNext]_vars

SpecEvents == Init /\ [][EventsNext]_vars

SpecKeys == Init /\ [][KeysNext]_vars

(***************************************************************************)
(* Properties of the BiDi multiplexer                                       *)
(***************************************************************************)

\* C1: when Close releases an Execute call that is blocked on its reply
\* channel, the call returns a SessionClosed error (and never a success).
C1_CloseReleasesWithSessionClosed ==
    [][\A c \in Callers :
          (/\ pc[c] = "wait"
           /\ chans[callId[c]].closed
           /\ chans[callId[c]].buf = <<>>
           /\ pc'[c] = "done"
           /\ result'[c].kind # "Canceled")
          => result'[c].kind = "SessionClosed"]_vars

\* C4: a call that returns the payload of a response frame returns the frame
\* that answers its own command: the frame's id is the id assigned to the call.
C4_Correlation ==
    \A c \in Callers :
        (pc[c] = "done" /\ result[c].kind = "ok" /\ result[c].payload # Nil)
        => /\ result[c].payload.id = callId[c]
           /\ result[c].payload.method = method[c]

\* Two concurrent calls, answered in the reverse of the order of their ids,
\* have both returned a payload.
C4_Witness ==
    /\ routed = <<2, 1>>
    /\ \A c \in Callers :
          pc[c] = "done" /\ result[c].kind = "ok" /\ result[c].payload # Nil
    /\ \E c, d \in Callers : callId[c] = 1 /\ callId[d] = 2

\* C10: an Execute call that starts when the session is closed returns
\* SessionClosed at once: it takes no id, registers nothing, sends no frame.
C10_FailFastAfterClose ==
    [][\A c \in Callers :
          (/\ closed
           /\ pc[c] \in {"idle", "done"}
           /\ (pc'[c] # pc[c] \/ result'[c] # result[c] \/ method'[c] # method[c]))
          => /\ pc'[c] = "done"
             /\ result'[c] = Err("SessionClosed")
             /\ wsSent' = wsSent
             /\ nextID' = nextID
             /\ inflight' = inflight]_vars

\* A call has failed fast on a closed session.
C10_Witness ==
    \E c \in Callers :
        closed /\ pc[c] = "done" /\ result[c] = Err("SessionClosed")

\* C19: an Execute call that is assigned an id gets a positive one that is
\* greater than every id assigned before, and no two calls hold the same id.
C19_IdsIncrease ==
    [][\A c \in Callers :
          callId'[c] # callId[c]
          => /\ callId'[c] > 0
             /\ \A d \in Callers : callId'[c] > callId[d]
             /\ \A f \in wsSent : callId'[c] > f.id]_vars

\* Two calls are waiting for their replies at the same time, with the ids 1
\* and 2.
C19_Witness ==
    /\ pc["c1"] = "wait" /\ pc["c2"] = "wait"
    /\ {callId["c1"], callId["c2"]} = {1, 2}

\* C20: a call that has returned the send error or the cancellation error has
\* no entry under its id in the in-flight map.
C20_DeregisteredOnError ==
    \A c \in Callers :
        (pc[c] = "done" /\ result[c].kind \in {"SendFailed", "Canceled"})
        => callId[c] \notin DOMAIN inflight.m

\* One call was cancelled while it waited and one failed to send, and the
\* session is still open.
C20_Witness ==
    /\ ~closed
    /\ \E c, d \in Callers :
          /\ pc[c] = "done" /\ result[c].kind = "Canceled"
          /\ pc[d] = "done" /\ result[d].kind = "SendFailed"

(***************************************************************************)
(* Properties of the session handles                                        *)
(***************************************************************************)

NewSessionOps == {"remote.New", "WebDriver.NewSession", "remoteWD.NewSession"}
DeleteOps == {"WebDriver.DeleteSession", "WebDriver.Quit", "remoteWD.Quit"}

\* The session id of the handle an operation was called on.
HandleId(op) ==
    IF op \in {"remoteWD.NewSession", "remoteWD.Quit", "remoteWD.Click", "remoteWD.SwitchSession"}
    THEN id ELSE sessionID

\* C2: an operation other than NewSession that is called while the handle's
\* session id is empty issues no HTTP request.
C2_NoDispatchWhileUnbound ==
    (last.op \notin NewSessionOps /\ last.before = Empty) => ~last.sent

\* C3: no request is dispatched whose path carries the id of a session that a
\* successful DELETE /session/{id} has destroyed.
C3_DestroyedIdNeverReused ==
    ~(last.sent /\ last.reuse)

\* C7: a delete that succeeded on a bound handle leaves the handle unbound.
C7_DeleteLeavesUnbound ==
    (last.op \in DeleteOps /\ last.before # Empty /\ ~last.err)
    => HandleId(last.op) = Empty

\* C8: NewSession on a handle that has a session returns an error, sends no
\* request and keeps the session id.
C8_NewSessionRefusesWhenBound ==
    (last.op \in NewSessionOps /\ last.before # Empty)
    => (last.err /\ ~last.sent /\ HandleId(last.op) = last.before)

\* C9: a NewSession called on an unbound handle that fails (transport error,
\* error reply, reply without a session id, reply that cannot be used) leaves
\* the handle unbound.
C9_FailedNewSessionStaysUnbound ==
    (last.op \in NewSessionOps /\ last.before = Empty /\ (last.err \/ ~last.gotId))
    => HandleId(last.op) = Empty

\* A NewSession on an unbound handle failed although the reply carried a
\* session id.
C9_Witness ==
    /\ last.op = "WebDriver.NewSession"
    /\ "WebDriver" \in handles
    /\ last.before = Empty
    /\ last.sent /\ last.err /\ last.gotId
    /\ sessionID = Empty

(***************************************************************************)
(* Properties of the action queues                                          *)
(***************************************************************************)

PerformOps == {"ActionBuilder.Perform", "remoteWD.PerformActions"}

\* The queue behind an operation: the builder's devices or storedActions.
QueueEmpty(op) ==
    IF op = "ActionBuilder.Perform"
    THEN \A d \in DeviceNames : devices[d] = <<>>
    ELSE storedActions = <<>>

\* C5: when Perform has returned success, no device holds a queued action.
C5_QueueEmptyAfterPerform ==
    (last.op \in PerformOps /\ ~last.err) => QueueEmpty(last.op)

\* C6: a Perform that fails before its request is sent leaves the queued
\* actions as they were.
C6_QueueKeptWhenNotSent ==
    [][(last'.op \in PerformOps /\ last'.err /\ ~last'.sent)
       => (devices' = devices /\ storedActions' = storedActions)]_vars

(***************************************************************************)
(* Properties of the polling loop                                           *)
(***************************************************************************)

\* C11: a call that returns Timeout (cond returned (false, nil) every time)
\* returns when at least timeout and strictly less than timeout + interval
\* has elapsed.
C11_TimeoutWithinOneInterval ==
    (waitPc = "done" /\ waitResult = "Timeout")
    => (elapsed >= timeout /\ elapsed < timeout + interval)

\* C12: the turn in which cond returns an error ends the call with that
\* error, whatever the clock says, and a call that has returned invokes cond
\* and sleeps no more.
C12_PredicateErrorReturnedAtOnce ==
    [][/\ (waitPc = "cond" /\ condCalls' = condCalls + 1 /\ condResult' = "error")
          => (waitPc' = "done" /\ waitResult' = "PredicateError")
       /\ (waitPc = "done" /\ condResult = "error" /\ waitPc' # "cond")
          => (condCalls' = condCalls /\ sleeps' = sleeps)]_vars

\* cond returned an error in a turn that started after the timeout had elapsed.
C12_Witness ==
    /\ waitPc = "done"
    /\ condResult = "error"
    /\ waitResult = "PredicateError"
    /\ condCalls > 1
    /\ elapsed > timeout

(***************************************************************************)
(* Properties of the driver services                                        *)
(***************************************************************************)

\* C13: a Stop that follows a Stop that returned nil returns nil and neither
\* signals or kills a process, nor asks it to shut down, nor waits for it.
C13_StopIdempotent ==
    lastStop.again
    => (~lastStop.err /\ ~lastStop.kill /\ ~lastStop.shutdown /\ ~lastStop.wait)

(***************************************************************************)
(* Properties of command dispatch                                           *)
(***************************************************************************)

\* C14: when every $name token of the command's path template has a
\* parameter, the URL that Execute builds contains no "$".
C14_NoPlaceholderLeft ==
    (connLast.impl = "RemoteConnection" /\ connLast.known /\ connLast.complete)
    => (\A j \in DOMAIN connLast.url : connLast.url[j] # "$")

\* C15: a reply whose status is outside [200,300) is returned as an error,
\* whatever its body.
C15_Non2xxIsError ==
    (connLast.sent /\ (connLast.status < 200 \/ connLast.status >= 300))
    => connLast.err

\* C16: a command that is not in the endpoint table fails with an error of
\* kind UnknownMethod and no request is sent.
C16_UnknownCommandKind ==
    (connLast.impl = "RemoteConnection" /\ ~connLast.known)
    => (connLast.err /\ connLast.kind = "UnknownMethod" /\ ~connLast.sent)

\* The place of a device in the order of registration.
DeviceIndex(d) == CHOOSE i \in DOMAIN DeviceOrder : DeviceOrder[i] = d

\* The actions the log holds for device d, in the order of the calls.
LoggedFor(log, d) ==
    LET calls == SelectSeq(log, LAMBDA e : e.dev = d)
    IN [k \in DOMAIN calls |-> calls[k].action]

\* C17: the actions array of a request that Perform or PerformActions sends
\* lists the devices in the order they were registered (the builder's
\* devices, the Store calls) and each device's actions in the order they
\* were queued.
C17_ActionsKeepOrder ==
    [][/\ (last'.op = "remoteWD.PerformActions" /\ last'.sent)
          => wirePayload' = storeLog
       /\ (last'.op = "ActionBuilder.Perform" /\ last'.sent)
          => /\ \A i, j \in DOMAIN wirePayload' :
                   i < j => DeviceIndex(wirePayload'[i].id) < DeviceIndex(wirePayload'[j].id)
             /\ \A i \in DOMAIN wirePayload' :
                   wirePayload'[i].actions = LoggedFor(addLog, wirePayload'[i].id)]_vars

\* PerformActions has sent two different records in the order of their Store
\* calls.
C17_Witness ==
    /\ last.op = "remoteWD.PerformActions"
    /\ last.sent
    /\ Len(wirePayload) = 2
    /\ wirePayload[1] # wirePayload[2]
    /\ wirePayload[1].type = "pointer"

\* C18: no device record with an empty action list is in a request that
\* Perform or PerformActions sends, and every builder device with a queued
\* action has its record.
C18_NoEmptyDeviceRecord ==
    (last.op \in PerformOps /\ last.sent)
    => /\ \A i \in DOMAIN wirePayload : wirePayload[i].actions # <<>>
       /\ last.op = "ActionBuilder.Perform"
          => \A d \in DeviceNames :
                devices[d] # <<>> => \E i \in DOMAIN wirePayload : wirePayload[i].id = d

(***************************************************************************)
(* Properties of the BiDi multiplexer, continued                            *)
(***************************************************************************)

\* C27: however an Execute call and a Close interleave, the call never
\* assigns its channel into the in-flight map that Close has set to nil, and
\* a call that waits on a closed session waits on a channel that Close has
\* closed or that holds its reply.
C27_ExecuteSafeAgainstClose ==
    \A c \in Callers :
        /\ pc[c] # "panic"
        /\ (pc[c] = "wait" /\ closed)
           => (chans[callId[c]].closed \/ chans[callId[c]].buf # <<>>)

\* C28: a call that has returned its reply has no entry left in the in-flight
\* map, so the map holds at most as many entries as there are calls between
\* their registration and their return.
C28_NoEntryAfterSuccess ==
    /\ \A c \in Callers :
          (pc[c] = "done" /\ result[c].kind = "ok") => callId[c] \notin DOMAIN inflight.m
    /\ Cardinality(DOMAIN inflight.m) <= Cardinality({c \in Callers : pc[c] \in {"send", "wait"}})

\* C29: however many times Close is called, the WebSocket is closed once (and
\* is closed when the session is), a closed reply channel is no longer in the
\* in-flight map (so that no Close closes it again), and every Close after the
\* first returns nil.
C29_CloseOnlyOnce ==
    /\ wsCloseCount = (IF closed THEN 1 ELSE 0)
    /\ \A k \in DOMAIN inflight.m : ~chans[inflight.m[k]].closed
    /\ \A i \in 2..Len(closeLog) : closeLog[i] = "nil"

\* Close was called twice while a call waited for its reply: the first Close
\* closed the call's channel and returned the error of ws.Close, the second
\* returned nil.
C29_Witness ==
    /\ Len(closeLog) = 2
    /\ closeLog[1] = "error"
    /\ wsCloseCount = 1
    /\ \E c \in Callers : pc[c] = "wait" /\ chans[callId[c]].closed

(***************************************************************************)
(* Properties of the session handles, continued                             *)
(***************************************************************************)

\* C25: DeleteSession or Quit called on a handle that has no session returns
\* nil, sends no request and leaves the handle without a session.
C25_DeleteWithoutSessionIsNoOp ==
    (last.op \in DeleteOps /\ last.before = Empty)
    => (~last.err /\ ~last.sent /\ HandleId(last.op) = Empty)

\* DeleteSession or Quit has returned on a handle that had no session.
C25_Witness ==
    last.op \in DeleteOps /\ last.before = Empty /\ handles # {}

(***************************************************************************)
(* Properties of Wait, continued                                            *)
(***************************************************************************)

\* C26: when cond returns (true, nil) the first time it is invoked, Wait
\* returns nil in that turn: cond was invoked once, nothing was slept and no
\* time has passed, whatever the timeout and the interval.
C26_FirstTrueReturnsAtOnce ==
    /\ [][(condCalls = 0 /\ condCalls' = 1 /\ condResult' = "true")
          => (waitPc' = "done" /\ waitResult' = "ok" /\ sleeps' = 0 /\ elapsed' = 0)]_vars
    /\ [][(waitPc = "done" /\ waitPc' # LoopEntry)
          => (condCalls' = condCalls /\ sleeps' = sleeps)]_vars

\* Wait with a timeout of zero has returned nil after its first call of cond.
C26_Witness ==
    /\ waitPc = "done"
    /\ waitResult = "ok"
    /\ condCalls = 1
    /\ timeout = 0

(***************************************************************************)
(* Properties of the action queues, continued                               *)
(***************************************************************************)

\* C22: when Perform returns the error of an /actions request that was sent
\* (its reply lost), the action queue is empty.  A lost reply and an error
\* reply leave the same state: Perform returns the error of a sent request.
C22_QueueEmptyAfterLostReply ==
    (last.op \in PerformOps /\ last.sent /\ last.err) => QueueEmpty(last.op)

(***************************************************************************)
(* Properties of the driver services, continued                             *)
(***************************************************************************)

\* C23: a turn of Start's readiness loop taken after the driver process has
\* exited ends Start with an error: it neither reports the service started
\* nor goes on to another attempt.
C23_ExitDuringStartIsError ==
    [][(/\ svcPc = "polling"
        /\ procs[svcProcess] = "exited"
        /\ <<svcPc, svcAttempt, startResult>>' # <<svcPc, svcAttempt, startResult>>)
       => (svcPc' = "idle" /\ startResult' = "error")]_vars

\* C30: when Start fails after it spawned the driver process, the process has
\* exited and the supervisor holds no handle: for common.Service.Start when
\* its readiness loop ends with an error, for the selenium.Service
\* constructors when they spawn a process and return no service.
C30_FailedStartLeavesNoProcess ==
    [][/\ (svcPc = "polling" /\ svcPc' = "idle" /\ startResult' = "error")
          => (svcProcess' = 0 /\ procs'[svcProcess] = "exited")
       /\ (Len(procs') > Len(procs) /\ svcProcess' = svcProcess /\ legacy'.pid = 0)
          => procs'[Len(procs')] = "exited"]_vars

(***************************************************************************)
(* Properties of the keyboard actions                                       *)
(***************************************************************************)

\* C24: KeyDown(s) adds, for each character of s in order, a keyDown carrying
\* that one character paired with a keyUp for it: to the keyboard's queue for
\* KeyInput.KeyDown, to the actions it posts for remoteWD.KeyDown.
C24_KeyDownPerCharacterPaired ==
    /\ keyLast.op = "KeyInput.KeyDown"
       => keyboard = keyLast.before \o KeysTyped(keyLast.arg)
    /\ keyLast.op = "remoteWD.KeyDown"
       => keySent = KeysTyped(keyLast.arg)

(***************************************************************************)
(* Properties of the BiDi event handlers                                    *)
(***************************************************************************)

\* C21: events are delivered in arrival order: a handler invoked for two
\* events of one topic is invoked for the one that arrived earlier first.
C21_EventsInArrivalOrder ==
    \A i, j \in DOMAIN invoked :
        (/\ i < j
         /\ invoked[i].h = invoked[j].h
         /\ arrived[invoked[i].ev] = arrived[invoked[j].ev])
        => invoked[i].ev <= invoked[j].ev

\* A handler has been invoked for two events of its topic, the second of which
\* arrived while the first had not been dispatched yet.
C21_Witness ==
    \E i, j \in DOMAIN invoked :
        /\ i < j
        /\ invoked[i].h = invoked[j].h
        /\ arrived[invoked[i].ev] = arrived[invoked[j].ev]
        /\ invoked[i].ev < invoked[j].ev

====
